---- MODULE Spec2Model ----
(***************************************************************************)
(* Model of the scanmem benchmark harness (src/bin/benchmark.rs) and of    *)
(* the synthetic load it drives (src/bin/synthetic_load.rs).               *)
(*                                                                         *)
(* The harness is one sequential program; its position is pc.  The load    *)
(* and the scanmem target are child processes that run concurrently with   *)
(* it and talk to it through pipes.  Every blocking call of the harness    *)
(* (spawn, write_line, read_line, wait) is one step.                       *)
(***************************************************************************)
EXTENDS Integers, Sequences, FiniteSets, TLC

----------------------------------------------------------------------------
(* Bounds of the model.                                                    *)

\* u64 is modelled with WordBits bits, the f64 significand with MantBits
\* bits (64 and 53 in the program); MantBits < WordBits as in the program.
WordBits == 5
MantBits == 4
\* largest --iterations value explored
MaxIterations == 2
\* largest reading of the system clock
MaxClock == 2
\* most lines a scanmem process writes to its output pipes
MaxTargetOut == 3
\* lines an output pipe of the target holds before a writer blocks
PipeCap == 1
\* longest duration sample and largest duration of the aggregate functions
MaxSample == 4
MaxDuration == 7
\* largest buffer and most input lines of the load on its own
MaxMemory == 2
MaxLines == 3

----------------------------------------------------------------------------
(* Integer and floating point arithmetic of the sweep.                     *)

RECURSIVE Pow2(_)
Pow2(k) == IF k <= 0 THEN 1 ELSE 2 * Pow2(k - 1)

RECURSIVE BitLen(_)
BitLen(n) == IF n <= 0 THEN 0 ELSE 1 + BitLen(n \div 2)

MaxU64 == Pow2(WordBits) - 1

\* Largest integer up to which every integer is a floating point value.
ExactLimit == Pow2(MantBits)

\* Round a non-negative integer to MantBits significant bits, ties to even.
RoundSig(n) ==
    IF n < Pow2(MantBits) THEN n
    ELSE LET e == BitLen(n) - MantBits
             q == n \div Pow2(e)
             r == n % Pow2(e)
             h == Pow2(e - 1)
         IN  IF r > h \/ (r = h /\ q % 2 = 1) THEN (q + 1) * Pow2(e) ELSE q * Pow2(e)

\* `n as f64`
U64ToF64(n) == RoundSig(n)

\* `x as u64` for a non-negative x = m / den: truncates, saturates at u64::MAX.
F64ToU64(m, den) == IF m \div den > MaxU64 THEN MaxU64 ELSE m \div den

\* `(x * factor)` in f64 then `as u64`.  factor = num / den with den a power
\* of two, so the product x * num / den rounds as the integer x * num does.
MulFactor(x, factor) == F64ToU64(RoundSig(U64ToF64(x) * factor.num), factor.den)

\* `step_size += stepbytes`: whether the sum fits in u64, and the sum as a
\* build without overflow checks computes it (wrapping).
AddFits(size, stepbytes) == size + stepbytes <= MaxU64
WrappingAdd(size, stepbytes) == (size + stepbytes) % Pow2(WordBits)

\* The size after one step of the sweep (lines 291-292).
NextSize_StepDropped(size, stepbytes, factor) == MulFactor(size, factor)
NextSize(size, stepbytes, factor) == MulFactor(WrappingAdd(size, stepbytes), factor)

\* The while condition of the sweep (line 268).
InRange(size, minbytes, maxbytes) == size >= minbytes /\ size <= maxbytes

\* SystemTime::duration_since: defined when later >= earlier, else an error.
DurationOk(later, earlier) == later >= earlier
DurationSince(later, earlier) == later - earlier

----------------------------------------------------------------------------
(* Statistics of one scenario (lines 234-245 and 282-286).  Durations are  *)
(* integers (clock ticks), each one a floating point value.  The sum and   *)
(* the mean round as f64 does, to MantBits significant bits; the standard  *)
(* deviation is kept as the exact fraction of the formula of the code, its *)
(* own rounding is not modelled.                                           *)

RECURSIVE SeqSum(_)
SeqSum(s) == IF s = <<>> THEN 0 ELSE Head(s) + SeqSum(Tail(s))

SeqMax(s) == CHOOSE x \in {s[i] : i \in DOMAIN s} : \A j \in DOMAIN s : s[j] <= x
SeqMin(s) == CHOOSE x \in {s[i] : i \in DOMAIN s} : \A j \in DOMAIN s : x <= s[j]

\* ascending sort (data.sort_by(total_cmp))
RECURSIVE SortAscending(_)
SortAscending(s) ==
    IF s = <<>> THEN <<>>
    ELSE LET i == CHOOSE k \in DOMAIN s : \A j \in DOMAIN s : s[k] <= s[j]
             rest == [k \in 1..(Len(s) - 1) |-> IF k < i THEN s[k] ELSE s[k + 1]]
         IN  <<s[i]>> \o SortAscending(rest)

\* data[data.len() / 2] of the sorted data (0-based index len / 2)
compute_median_LowerMiddle(values) == SortAscending(values)[((Len(values) - 1) \div 2) + 1]
compute_median(values) == SortAscending(values)[(Len(values) \div 2) + 1]

\* iter().sum::<f64>(): the additions from left to right, each one rounded.
RECURSIVE FloatSumFrom(_, _)
FloatSumFrom(acc, s) ==
    IF s = <<>> THEN acc ELSE FloatSumFrom(RoundSig(acc + Head(s)), Tail(s))

FloatSum(values) == FloatSumFrom(0, values)

\* a / b rounded to the nearest integer, ties to even.
RoundDivEven(a, b) ==
    LET q == a \div b
        r == a % b
    IN  IF 2 * r > b \/ (2 * r = b /\ q % 2 = 1) THEN q + 1 ELSE q

\* The least k >= from with a * 2^k >= b.
RECURSIVE ScaleUp(_, _, _)
ScaleUp(a, b, from) == IF a * Pow2(from) >= b THEN from ELSE ScaleUp(a, b, from + 1)

\* `a / b` in f64 for a >= 0 and b > 0: the quotient rounded to MantBits
\* significant bits, as the fraction num / den with den a power of two.
FloatDiv(a, b) ==
    IF a = 0 THEN [num |-> 0, den |-> 1]
    ELSE IF a >= Pow2(MantBits) * b
    THEN LET e == ScaleUp(Pow2(MantBits) * b, a + 1, 1)
         IN  [num |-> RoundDivEven(a, b * Pow2(e)) * Pow2(e), den |-> 1]
    ELSE LET k == ScaleUp(a, Pow2(MantBits - 1) * b, 0)
         IN  [num |-> RoundDivEven(a * Pow2(k), b), den |-> Pow2(k)]

\* mean = sum / len (line 282), as a fraction
compute_mean_Undivided(values) == FloatDiv(FloatSum(values), 1)
compute_mean(values) == FloatDiv(FloatSum(values), Len(values))

\* reduce(|acc, e| acc + (e - mean)): the first element starts the
\* accumulator as it is, every later one is added centered.  With
\* mean = m.num / m.den the result is CenteredSum / m.den.
RECURSIVE CenteredTail(_, _)
CenteredTail(s, m) ==
    IF s = <<>> THEN 0 ELSE (m.den * Head(s) - m.num) + CenteredTail(Tail(s), m)

CenteredSum(values, m) == m.den * Head(values) + CenteredTail(Tail(values), m)

\* sqrt(1 / len * sum^2): the square of the result, as a fraction
compute_standard_deviation(values, m) ==
    [sq_num |-> CenteredSum(values, m) * CenteredSum(values, m),
     sq_den |-> m.den * m.den * Len(values)]

----------------------------------------------------------------------------
(* State.                                                                  *)

VARIABLES
    cli,              \* the parsed command line (struct Cli)
    env,              \* what the environment may do: clock steps, target output
    pc,               \* position of the harness
    step_size,        \* main: current size of the sweep
    results,          \* main: report.results
    exit_code,        \* how the harness exited: running, SUCCESS, panic, abort
    report,           \* perform_benchmark_scenario: the BenchmarkTiming built
    total_start_time, \* perform_benchmark_scenario: total_start_time
    start,            \* perform_benchmark_scenario: start of the iteration
    iter,             \* perform_benchmark_scenario: iterations completed
    cmd_idx,          \* perform_benchmark_iteration: next command to write
    outcome,          \* how the scenario is returning: none, ok, err, panic
    dropping,         \* the ChildProcess whose Drop is running
    now,              \* the system clock
    clock_monotone,   \* the clock never went backwards in this run
    chan,             \* the two ChildProcess values and their processes
    memory,           \* synthetic_load: State.memory
    timers_started,   \* iterations whose timer was started in this scenario
    rul_eof           \* read_until_line has read end-of-stream in this scenario

cfgVars == <<cli, env>>
sweepVars == <<step_size, results, exit_code>>
timingVars == <<report, total_start_time, start, iter>>
clockVars == <<now, clock_monotone>>
ghostVars == <<timers_started, rul_eof>>
vars == <<cli, env, pc, step_size, results, exit_code, report, total_start_time,
          start, iter, cmd_idx, outcome, dropping, now, clock_monotone, chan,
          memory, timers_started, rul_eof>>

\* benchmark_result.synthetic_load_random_seed = 0x1
RandomSeed == 1

\* Most scenarios one run of the model performs.
MaxResults == ExactLimit + 2

\* Lines of the protocols.
\* A line for synthetic_load: the subcommand, its first argument and, for
\* set-address, the value.  The address of set-address is given relative to
\* the start of the buffer (address - memory.as_ptr()).
SetMemorySizeCmd(n) == [op |-> "set-memory-size", arg |-> n, value |-> 0]
FillCmd(v) == [op |-> "fill", arg |-> v, value |-> 0]
FillRandomCmd(seed) == [op |-> "fill-random", arg |-> seed, value |-> 0]
SetAddressCmd(offset, v) == [op |-> "set-address", arg |-> offset, value |-> v]
InfoCmd == [op |-> "info", arg |-> 0, value |-> 0]
ExitCmd == [op |-> "exit", arg |-> 0, value |-> 0]
QCmd == [op |-> "q", arg |-> 0, value |-> 0]
DoneLine == "Done"

\* BenchmarkTiming::default()
DefaultTiming == [setup_time |-> 0, benchmark_times |-> <<>>, total_time |-> 0]

\* No process: before ChildProcess::new.
NoChannel ==
    [st |-> "none", handle |-> "none", stdin |-> <<>>, in_open |-> FALSE,
     stdout |-> <<>>, stderr |-> <<>>, waits |-> 0, io_after_wait |-> FALSE,
     sent |-> <<>>, emitted |-> 0, finishing |-> FALSE, crashed |-> FALSE,
     seen |-> 0]

\* ChildProcess::new succeeded: a running process with three open pipes.
Spawned ==
    [st |-> "running", handle |-> "open", stdin |-> <<>>, in_open |-> TRUE,
     stdout |-> <<>>, stderr |-> <<>>, waits |-> 0, io_after_wait |-> FALSE,
     sent |-> <<>>, emitted |-> 0, finishing |-> FALSE, crashed |-> FALSE,
     seen |-> 0]

\* A write reaches the child as long as the child holds its end of the pipe.
WriteLineOk(ch) == ch.st = "running"

\* write_line: the line is written and flushed.
WriteLine(ch, line) ==
    [ch EXCEPT !.stdin = Append(@, line), !.sent = Append(@, line),
               !.io_after_wait = @ \/ ch.waits > 0]

\* write_line failing (broken pipe): the stream was still operated on.
WriteLineFailed(ch) == [ch EXCEPT !.io_after_wait = @ \/ ch.waits > 0]

\* read_line returns without blocking: a line is buffered or the child's end
\* is closed.
ReadReady(q, ch) == q # <<>> \/ ch.st # "running"

\* read_line on stdout consumed one line.
ReadStdout(ch) ==
    [ch EXCEPT !.stdout = Tail(@), !.io_after_wait = @ \/ ch.waits > 0,
               !.seen = IF Head(ch.stdout) = DoneLine THEN @ + 1 ELSE @]

\* read_line on stderr consumed one line.
ReadStderr(ch) ==
    [ch EXCEPT !.stderr = Tail(@), !.io_after_wait = @ \/ ch.waits > 0]

\* read_line returned 0 (end of stream) or an error.
ReadNothing(ch) == [ch EXCEPT !.io_after_wait = @ \/ ch.waits > 0]

\* child_process.wait(): the exited child is reaped.
Wait(ch) == [ch EXCEPT !.st = "reaped", !.waits = @ + 1]

\* The fields of ChildProcess are dropped: the three pipes are closed.  The
\* Child handle is dropped without killing or waiting for the process.
CloseHandles(ch) ==
    [ch EXCEPT !.handle = "dropped", !.in_open = FALSE, !.stdout = <<>>,
               !.stderr = <<>>]

----------------------------------------------------------------------------
(* synthetic_load: the commands on State.memory.                           *)

\* Stand-in for the Pcg64Mcg stream of Uniform::new(u8::MIN, u8::MAX): a
\* value in 0..254 that depends only on the seed and the position.
RandomByte(seed, i) == (seed * 7 + i * 5) % 255

\* Vec::resize(new_size, 0): truncates, or appends zero bytes.
set_memory_size_Zeroed(mem, new_size) == [i \in 1..new_size |-> 0]
set_memory_size(mem, new_size) ==
    [i \in 1..new_size |-> IF i <= Len(mem) THEN mem[i] ELSE 0]

fill_memory(mem, value) == [i \in 1..Len(mem) |-> value]

fill_memory_random(mem, seed) == [i \in 1..Len(mem) |-> RandomByte(seed, i)]

\* set_address: the byte at the address is set when the buffer is not empty
\* and the address lies in it.
set_address(mem, offset, value) ==
    IF mem # <<>> /\ offset >= 0 /\ offset < Len(mem)
    THEN [mem EXCEPT ![offset + 1] = value]
    ELSE mem

perform_command(mem, cmd) ==
    CASE cmd.op = "set-memory-size" -> set_memory_size(mem, cmd.arg)
      [] cmd.op = "fill" -> fill_memory(mem, cmd.arg)
      [] cmd.op = "fill-random" -> fill_memory_random(mem, cmd.arg)
      [] cmd.op = "set-address" -> set_address(mem, cmd.arg, cmd.value)
      [] OTHER -> mem

\* What perform_command prints: the complaints of set_address and the three
\* lines of print_info.
CommandOutput(mem, cmd) ==
    CASE cmd.op = "set-address" /\ mem = <<>> -> <<"memory empty">>
      [] cmd.op = "set-address" /\ mem # <<>> /\ (cmd.arg < 0 \/ cmd.arg >= Len(mem)) ->
           <<"address not in range">>
      [] cmd.op = "info" -> <<"memory size", "memory start", "memory end">>
      [] OTHER -> <<>>

\* The lines Cli::try_parse_from accepts: a subcommand of Commands (or the
\* alias q) whose arguments parse as their types; a u8 is at most 255.
ValidCommand(cmd) ==
    CASE cmd.op \in {"exit", "q", "info"} -> TRUE
      [] cmd.op \in {"set-memory-size", "fill-random"} -> cmd.arg >= 0
      [] cmd.op = "fill" -> cmd.arg \in 0..255
      [] cmd.op = "set-address" -> cmd.value \in 0..255
      [] OTHER -> FALSE

\* lines 120-122: the loop ends at the command Exit.
LoadEnds_OnError(cmd) == ~ValidCommand(cmd) \/ cmd.op \in {"exit", "q"}
LoadEnds(cmd) == ValidCommand(cmd) /\ cmd.op \in {"exit", "q"}

\* lines 123-124: what a performed command writes to stdout, ending with
\* println!("Done").
Reply_SentinelForThree(mem, cmd) == CommandOutput(mem, cmd) \o (IF cmd.op \in {"set-memory-size", "fill", "fill-random"} THEN <<DoneLine>> ELSE <<>>)
Reply(mem, cmd) == CommandOutput(mem, cmd) \o <<DoneLine>>

----------------------------------------------------------------------------
(* Initial states: the command lines and environments explored.            *)

\* --stepfactor values: num / den, den a power of two.
FactorChoices ==
    {[num |-> 1, den |-> 2], [num |-> 1, den |-> 1], [num |-> 3, den |-> 2],
     [num |-> 2, den |-> 1]}

\* parse_scanmem_commands: --scanmem-commands split at ';'.  The two command
\* lines explored are "exit" and "= 1;exit".
parse_scanmem_commands(input) == IF input = "exit" THEN <<"exit">> ELSE <<"= 1", "exit">>

\* Runs of one scenario, with every behaviour of clock and children.  The
\* target is silent, or writes as much as its two pipes hold, or more.
ScenarioRuns ==
    {[cli |-> [minbytes |-> 1, maxbytes |-> 1, stepbytes |-> 1,
               stepfactor |-> [num |-> 1, den |-> 1], iterations |-> n,
               verbose |-> v, scanmem_commands |-> "= 1;exit"],
      env |-> [clock_steps |-> {0 - 1, 0, 1}, target_out |-> k]] :
        n \in 0..MaxIterations, v \in BOOLEAN, k \in {0, 2 * PipeCap, MaxTargetOut}}

\* Sweeps over many sizes, with a clock that stands still and a silent target.
SweepRuns ==
    {[cli |-> [minbytes |-> lo, maxbytes |-> hi, stepbytes |-> sb,
               stepfactor |-> f, iterations |-> n, verbose |-> FALSE,
               scanmem_commands |-> "exit"],
      env |-> [clock_steps |-> {0}, target_out |-> 0]] :
        lo \in {0, 1, ExactLimit}, hi \in {10, ExactLimit, ExactLimit + 3, MaxU64},
        sb \in {0, 1, 3, MaxU64}, f \in FactorChoices, n \in {0, 1}}

Init ==
    /\ \E run \in ScenarioRuns \cup SweepRuns : cli = run.cli /\ env = run.env
    /\ pc = "main_loop"
    /\ step_size = cli.minbytes
    /\ results = <<>>
    /\ exit_code = "running"
    /\ report = DefaultTiming
    /\ total_start_time = 0
    /\ start = 0
    /\ iter = 0
    /\ cmd_idx = 1
    /\ outcome = "none"
    /\ dropping = "load"
    /\ now = 0
    /\ clock_monotone = TRUE
    /\ chan = [load |-> NoChannel, target |-> NoChannel]
    /\ memory = <<>>
    /\ timers_started = 0
    /\ rul_eof = FALSE

----------------------------------------------------------------------------
(* The harness: main, perform_benchmark_scenario, perform_benchmark_       *)
(* iteration, ChildProcess.                                                *)

\* SystemTime::now(): the clock moves by one of the steps the environment
\* allows and is read.
ReadClock(t) ==
    /\ t \in {now + d : d \in env.clock_steps} \cap (0..MaxClock)
    /\ now' = t
    /\ clock_monotone' = (clock_monotone /\ t >= now)

\* `?` in perform_benchmark_scenario: return Err, which drops synthetic_load.
FailScenario ==
    /\ outcome' = "err"
    /\ dropping' = "load"
    /\ pc' = "drop"

\* main, line 268, and perform_benchmark_scenario up to ChildProcess::new:
\* the size is in range, a scenario starts and the load is spawned or not.
ScenarioStart ==
    /\ pc = "main_loop"
    /\ InRange(step_size, cli.minbytes, cli.maxbytes)
    /\ Len(results) < MaxResults
    /\ \E t \in 0..MaxClock : ReadClock(t) /\ total_start_time' = t
    /\ report' = DefaultTiming
    /\ iter' = 0
    /\ timers_started' = 0
    /\ rul_eof' = FALSE
    /\ \/ /\ chan' = [load |-> Spawned, target |-> NoChannel]
          /\ memory' = <<>>
          /\ outcome' = "none"
          /\ pc' = "cfg_write_size"
       \/ /\ chan' = [load |-> NoChannel, target |-> NoChannel]
          /\ outcome' = "err"
          /\ pc' = "aggregate"
          /\ UNCHANGED memory
    /\ UNCHANGED <<cfgVars, sweepVars, start, cmd_idx, dropping>>

\* main, lines 268 and 296-298: the size left the range, the report is
\* printed and the run ends with ExitCode::SUCCESS.
SweepDone ==
    /\ pc = "main_loop"
    /\ ~InRange(step_size, cli.minbytes, cli.maxbytes)
    /\ pc' = "done"
    /\ exit_code' = "SUCCESS"
    /\ UNCHANGED <<cfgVars, step_size, results, timingVars, cmd_idx, outcome,
                   dropping, clockVars, chan, memory, ghostVars>>

\* write_line on the load at position `at`, going on at `next`.
LoadWrite(at, line, next) ==
    /\ pc = at
    /\ IF WriteLineOk(chan.load)
       THEN /\ chan' = [chan EXCEPT !.load = WriteLine(@, line)]
            /\ pc' = next
            /\ UNCHANGED <<outcome, dropping>>
       ELSE /\ chan' = [chan EXCEPT !.load = WriteLineFailed(@)]
            /\ FailScenario
    /\ UNCHANGED <<cfgVars, sweepVars, timingVars, cmd_idx, clockVars, memory,
                   ghostVars>>

\* read_until_line("Done") on the load at position `at`: one turn of its loop.
read_until_line(at, next) ==
    /\ pc = at
    /\ \/ \* a line is read: return if it is the sentinel, else read on
          /\ chan.load.stdout # <<>>
          /\ chan' = [chan EXCEPT !.load = ReadStdout(@)]
          /\ pc' = IF Head(chan.load.stdout) = DoneLine THEN next ELSE at
          /\ UNCHANGED <<outcome, dropping, rul_eof>>
       \/ \* read_line returns Ok(0): buf is empty, not the sentinel, read on
          /\ chan.load.stdout = <<>>
          /\ chan.load.st # "running"
          /\ chan' = [chan EXCEPT !.load = ReadNothing(@)]
          /\ rul_eof' = TRUE
          /\ pc' = at
          /\ UNCHANGED <<outcome, dropping>>
       \/ \* read_line returns Err
          /\ ReadReady(chan.load.stdout, chan.load)
          /\ chan' = [chan EXCEPT !.load = ReadNothing(@)]
          /\ FailScenario
          /\ UNCHANGED rul_eof
    /\ UNCHANGED <<cfgVars, sweepVars, timingVars, cmd_idx, clockVars, memory,
                   timers_started>>

\* line 198
CfgWriteSize == LoadWrite("cfg_write_size", SetMemorySizeCmd(step_size), "cfg_read_size")
\* line 199
CfgReadSize == read_until_line("cfg_read_size", "cfg_write_fill")
\* line 200
CfgWriteFill_NoAck == LoadWrite("cfg_write_fill", FillRandomCmd(RandomSeed), "setup_time")
CfgWriteFill == LoadWrite("cfg_write_fill", FillRandomCmd(RandomSeed), "cfg_read_fill")
\* line 201
CfgReadFill == read_until_line("cfg_read_fill", "setup_time")

\* line 204: report.setup_time
SetupTime ==
    /\ pc = "setup_time"
    /\ \E t \in 0..MaxClock :
        /\ ReadClock(t)
        /\ IF DurationOk(t, total_start_time)
           THEN /\ report' = [report EXCEPT !.setup_time = DurationSince(t, total_start_time)]
                /\ pc' = "iter_begin"
                /\ UNCHANGED <<outcome, dropping>>
           ELSE /\ FailScenario
                /\ UNCHANGED report
    /\ UNCHANGED <<cfgVars, sweepVars, total_start_time, start, iter, cmd_idx,
                   chan, memory, ghostVars>>

\* lines 207-209 and 165-176: the timer of the iteration starts and scanmem
\* is spawned, or fails to.
IterBegin_Refill ==
    /\ pc = "iter_begin"
    /\ iter < cli.iterations
    /\ \E t \in 0..MaxClock : ReadClock(t) /\ start' = t
    /\ timers_started' = timers_started + 1
    /\ chan' = [chan EXCEPT !.target = Spawned,
                            !.load = WriteLine(@, FillRandomCmd(RandomSeed + iter + 1))]
    /\ cmd_idx' = 1
    /\ pc' = "target_write"
    /\ UNCHANGED <<outcome, dropping>>
    /\ UNCHANGED <<cfgVars, sweepVars, report, total_start_time, iter, memory,
                   rul_eof>>
IterBegin ==
    /\ pc = "iter_begin"
    /\ iter < cli.iterations
    /\ \E t \in 0..MaxClock : ReadClock(t) /\ start' = t
    /\ timers_started' = timers_started + 1
    /\ \/ /\ chan' = [chan EXCEPT !.target = Spawned]
          /\ cmd_idx' = 1
          /\ pc' = "target_write"
          /\ UNCHANGED <<outcome, dropping>>
       \/ /\ FailScenario
          /\ UNCHANGED <<chan, cmd_idx>>
    /\ UNCHANGED <<cfgVars, sweepVars, report, total_start_time, iter, memory,
                   rul_eof>>

\* main, line 265
ScanmemCommands == parse_scanmem_commands(cli.scanmem_commands)

\* lines 177-179: the next scanmem command is written; a failure returns Err
\* from the iteration, which drops scanmem.
TargetWrite ==
    /\ pc = "target_write"
    /\ IF WriteLineOk(chan.target)
       THEN /\ chan' = [chan EXCEPT !.target = WriteLine(@, ScanmemCommands[cmd_idx])]
            /\ cmd_idx' = cmd_idx + 1
            /\ pc' = IF cmd_idx = Len(ScanmemCommands) THEN "target_wait"
                     ELSE "target_write"
            /\ UNCHANGED <<outcome, dropping>>
       ELSE /\ chan' = [chan EXCEPT !.target = WriteLineFailed(@)]
            /\ outcome' = "err"
            /\ dropping' = "target"
            /\ pc' = "drop"
            /\ UNCHANGED cmd_idx
    /\ UNCHANGED <<cfgVars, sweepVars, timingVars, clockVars, memory, ghostVars>>

\* line 182: scanmem.child_process.wait(); then the iteration returns Ok and
\* scanmem is dropped.
TargetWait ==
    /\ pc = "target_wait"
    /\ chan.target.st = "exited"
    /\ chan' = [chan EXCEPT !.target = Wait(@)]
    /\ dropping' = "target"
    /\ pc' = "drop"
    /\ UNCHANGED <<cfgVars, sweepVars, timingVars, cmd_idx, outcome, clockVars,
                   memory, ghostVars>>

\* line 210: the duration of the iteration is pushed.
IterPush ==
    /\ pc = "iter_push"
    /\ \E t \in 0..MaxClock :
        /\ ReadClock(t)
        /\ IF DurationOk(t, start)
           THEN /\ report' = [report EXCEPT
                                !.benchmark_times = Append(@, DurationSince(t, start))]
                /\ iter' = iter + 1
                /\ pc' = "iter_begin"
                /\ UNCHANGED <<outcome, dropping>>
           ELSE /\ FailScenario
                /\ UNCHANGED <<report, iter>>
    /\ UNCHANGED <<cfgVars, sweepVars, total_start_time, start, cmd_idx, chan,
                   memory, ghostVars>>

\* line 213, after the last iteration
TeardownWrite ==
    /\ iter >= cli.iterations
    /\ LoadWrite("iter_begin", ExitCmd, "teardown_wait")

\* line 214: synthetic_load.child_process.wait()
TeardownWait ==
    /\ pc = "teardown_wait"
    /\ chan.load.st = "exited"
    /\ chan' = [chan EXCEPT !.load = Wait(@)]
    /\ pc' = "total_time"
    /\ UNCHANGED <<cfgVars, sweepVars, timingVars, cmd_idx, outcome, dropping,
                   clockVars, memory, ghostVars>>

\* lines 216-218: report.total_time; return Ok(report), which drops
\* synthetic_load.
TotalTime_FromIterationStart ==
    /\ pc = "total_time"
    /\ \E t \in 0..MaxClock :
        /\ ReadClock(t)
        /\ IF DurationOk(t, start)
           THEN /\ report' = [report EXCEPT !.total_time = DurationSince(t, start)]
                /\ outcome' = "ok"
                /\ dropping' = "load"
                /\ pc' = "drop"
           ELSE /\ FailScenario
                /\ UNCHANGED report
    /\ UNCHANGED <<cfgVars, sweepVars, total_start_time, start, iter, cmd_idx,
                   chan, memory, ghostVars>>

TotalTime ==
    /\ pc = "total_time"
    /\ \E t \in 0..MaxClock :
        /\ ReadClock(t)
        /\ IF DurationOk(t, total_start_time)
           THEN /\ report' = [report EXCEPT !.total_time = DurationSince(t, total_start_time)]
                /\ outcome' = "ok"
                /\ dropping' = "load"
                /\ pc' = "drop"
           ELSE /\ FailScenario
                /\ UNCHANGED report
    /\ UNCHANGED <<cfgVars, sweepVars, total_start_time, start, iter, cmd_idx,
                   chan, memory, ghostVars>>

\* What follows the Drop of ChildProcess `c` when the scenario is returning
\* as `oc`: after scanmem the iteration returns, Ok to line 210 or Err out of
\* the scenario, which drops synthetic_load; after synthetic_load the scenario
\* returns to main, or the panic leaves main.
AfterDrop(c, oc) ==
    IF c = "target"
    THEN /\ dropping' = IF oc = "none" THEN "target" ELSE "load"
         /\ pc' = IF oc = "none" THEN "iter_push" ELSE "drop"
         /\ UNCHANGED exit_code
    ELSE /\ pc' = IF oc = "panic" THEN "panicked" ELSE "aggregate"
         /\ exit_code' = IF oc = "panic" THEN "panic" ELSE exit_code
         /\ UNCHANGED dropping

\* Drop for ChildProcess without echo: only the fields are dropped.
DropQuiet ==
    /\ pc = "drop"
    /\ ~cli.verbose
    /\ chan' = [chan EXCEPT ![dropping] = CloseHandles(@)]
    /\ AfterDrop(dropping, outcome)
    /\ UNCHANGED <<cfgVars, step_size, results, timingVars, cmd_idx, outcome,
                   clockVars, memory, ghostVars>>

\* lines 144-151: one line of stdout is read and echoed
DropStdoutLine ==
    /\ pc = "drop"
    /\ cli.verbose
    /\ chan[dropping].stdout # <<>>
    /\ chan' = [chan EXCEPT ![dropping] = ReadStdout(@)]
    /\ UNCHANGED <<cfgVars, pc, sweepVars, timingVars, cmd_idx, outcome, dropping,
                   clockVars, memory, ghostVars>>

\* lines 146-149: stdout is at its end
DropStdoutEof ==
    /\ pc = "drop"
    /\ cli.verbose
    /\ chan[dropping].stdout = <<>>
    /\ chan[dropping].st # "running"
    /\ chan' = [chan EXCEPT ![dropping] = ReadNothing(@)]
    /\ pc' = "drop_stderr"
    /\ UNCHANGED <<cfgVars, sweepVars, timingVars, cmd_idx, outcome, dropping,
                   clockVars, memory, ghostVars>>

\* lines 152-159: one line of stderr is read and echoed
DropStderrLine ==
    /\ pc = "drop_stderr"
    /\ chan[dropping].stderr # <<>>
    /\ chan' = [chan EXCEPT ![dropping] = ReadStderr(@)]
    /\ UNCHANGED <<cfgVars, pc, sweepVars, timingVars, cmd_idx, outcome, dropping,
                   clockVars, memory, ghostVars>>

\* lines 154-161: stderr is at its end, the drop completes
DropStderrEof ==
    /\ pc = "drop_stderr"
    /\ chan[dropping].stderr = <<>>
    /\ chan[dropping].st # "running"
    /\ chan' = [chan EXCEPT ![dropping] = CloseHandles(ReadNothing(@))]
    /\ AfterDrop(dropping, outcome)
    /\ UNCHANGED <<cfgVars, step_size, results, timingVars, cmd_idx, outcome,
                   clockVars, memory, ghostVars>>

\* lines 146 and 154: read_line(..).unwrap() on an Err panics.  The fields
\* are dropped as the panic unwinds; a panic while already unwinding aborts.
DropReadErr ==
    /\ pc \in {"drop", "drop_stderr"}
    /\ cli.verbose
    /\ ReadReady(IF pc = "drop" THEN chan[dropping].stdout ELSE chan[dropping].stderr,
                 chan[dropping])
    /\ chan' = [chan EXCEPT ![dropping] = CloseHandles(ReadNothing(@))]
    /\ IF outcome = "panic"
       THEN /\ pc' = "panicked"
            /\ exit_code' = "abort"
            /\ UNCHANGED <<outcome, dropping>>
       ELSE /\ outcome' = "panic"
            /\ AfterDrop(dropping, "panic")
    /\ UNCHANGED <<cfgVars, step_size, results, timingVars, cmd_idx, clockVars,
                   memory, ghostVars>>

\* The timing main keeps for the scenario (lines 274-279): the returned one,
\* or the default one when the scenario returned Err.
KeptTiming == IF outcome = "ok" THEN report ELSE DefaultTiming

\* lines 282-286 on an empty benchmark_times: max_by(..).unwrap() panics.
AggregatePanic ==
    /\ pc = "aggregate"
    /\ KeptTiming.benchmark_times = <<>>
    /\ pc' = "panicked"
    /\ exit_code' = "panic"
    /\ UNCHANGED <<cfgVars, step_size, results, timingVars, cmd_idx, outcome,
                   dropping, clockVars, chan, memory, ghostVars>>

\* The BenchmarkResult of lines 270-286.
BenchmarkResult(size, timing) ==
    LET times == timing.benchmark_times
        m == compute_mean(times)
    IN  [synthetic_load_size |-> size, synthetic_load_random_seed |-> RandomSeed,
         timing |-> timing, mean |-> m, median |-> compute_median(times),
         min |-> SeqMin(times), max |-> SeqMax(times),
         standard_deviation |-> compute_standard_deviation(times, m)]

\* lines 282-292: the aggregates are computed, the result is pushed and the
\* size advances.
AggregateAdvance ==
    /\ pc = "aggregate"
    /\ KeptTiming.benchmark_times # <<>>
    /\ results' = Append(results, BenchmarkResult(step_size, KeptTiming))
    /\ step_size' = NextSize(step_size, cli.stepbytes, cli.stepfactor)
    /\ pc' = "main_loop"
    /\ UNCHANGED <<cfgVars, exit_code, timingVars, cmd_idx, outcome, dropping,
                   clockVars, chan, memory, ghostVars>>

\* line 291 in a build with overflow checks: the sum does not fit, the
\* addition panics after the result was pushed.
AggregateOverflow ==
    /\ pc = "aggregate"
    /\ KeptTiming.benchmark_times # <<>>
    /\ ~AddFits(step_size, cli.stepbytes)
    /\ results' = Append(results, BenchmarkResult(step_size, KeptTiming))
    /\ pc' = "panicked"
    /\ exit_code' = "panic"
    /\ UNCHANGED <<cfgVars, step_size, timingVars, cmd_idx, outcome, dropping,
                   clockVars, chan, memory, ghostVars>>

----------------------------------------------------------------------------
(* The child processes.                                                    *)

\* synthetic_load main, lines 113-131: one line of input is read and
\* performed.
LoadRead ==
    /\ chan.load.st = "running"
    /\ chan.load.stdin # <<>>
    /\ LET cmd == Head(chan.load.stdin)
           rest == [chan.load EXCEPT !.stdin = Tail(@)]
       IN  IF LoadEnds(cmd)
           THEN /\ chan' = [chan EXCEPT !.load = [rest EXCEPT !.st = "exited"]]
                /\ UNCHANGED memory
           ELSE /\ memory' = IF ValidCommand(cmd) THEN perform_command(memory, cmd)
                             ELSE memory
                /\ chan' = [chan EXCEPT !.load =
                     IF chan.load.handle # "open"
                     THEN [rest EXCEPT !.st = "exited"]
                     ELSE IF ValidCommand(cmd)
                     THEN [rest EXCEPT !.stdout = @ \o Reply(memory, cmd),
                                       !.emitted = @ + 1]
                     ELSE [rest EXCEPT !.stdout = Append(@, "error")]]
    /\ UNCHANGED <<cfgVars, pc, sweepVars, timingVars, cmd_idx, outcome, dropping,
                   clockVars, ghostVars>>

\* synthetic_load main, lines 136-139: end of input, the loop ends.
LoadEof ==
    /\ chan.load.st = "running"
    /\ chan.load.stdin = <<>>
    /\ ~chan.load.in_open
    /\ chan' = [chan EXCEPT !.load.st = "exited"]
    /\ UNCHANGED <<cfgVars, pc, sweepVars, timingVars, cmd_idx, outcome, dropping,
                   clockVars, memory, ghostVars>>

\* The load dies while the harness holds its pipes (killed, or aborted by a
\* failed allocation in set_memory_size).
LoadCrash ==
    /\ chan.load.st = "running"
    /\ chan.load.handle = "open"
    /\ chan' = [chan EXCEPT !.load.st = "exited", !.load.crashed = TRUE]
    /\ UNCHANGED <<cfgVars, pc, sweepVars, timingVars, cmd_idx, outcome, dropping,
                   clockVars, memory, ghostVars>>

\* scanmem reads one command; after `exit` it finishes.
TargetRead ==
    /\ chan.target.st = "running"
    /\ ~chan.target.finishing
    /\ chan.target.stdin # <<>>
    /\ chan' = [chan EXCEPT !.target.stdin = Tail(@),
                            !.target.finishing = (Head(chan.target.stdin) = "exit")]
    /\ UNCHANGED <<cfgVars, pc, sweepVars, timingVars, cmd_idx, outcome, dropping,
                   clockVars, memory, ghostVars>>

\* scanmem writes a line of its output to stdout or to stderr; the write
\* waits for room in the pipe.
TargetEmit ==
    /\ chan.target.st = "running"
    /\ chan.target.emitted < env.target_out
    /\ \/ /\ Len(chan.target.stdout) < PipeCap
          /\ chan' = [chan EXCEPT !.target.stdout = Append(@, "out"),
                                  !.target.emitted = @ + 1]
       \/ /\ Len(chan.target.stderr) < PipeCap
          /\ chan' = [chan EXCEPT !.target.stderr = Append(@, "err"),
                                  !.target.emitted = @ + 1]
    /\ UNCHANGED <<cfgVars, pc, sweepVars, timingVars, cmd_idx, outcome, dropping,
                   clockVars, memory, ghostVars>>

\* scanmem exits after `exit`, once all its output is written.
TargetFinish ==
    /\ chan.target.st = "running"
    /\ chan.target.finishing
    /\ chan.target.emitted = env.target_out
    /\ chan' = [chan EXCEPT !.target.st = "exited"]
    /\ UNCHANGED <<cfgVars, pc, sweepVars, timingVars, cmd_idx, outcome, dropping,
                   clockVars, memory, ghostVars>>

\* scanmem ends early on its own (it failed to attach, or crashed).
TargetCrash ==
    /\ chan.target.st = "running"
    /\ ~chan.target.finishing
    /\ chan' = [chan EXCEPT !.target.st = "exited", !.target.crashed = TRUE]
    /\ UNCHANGED <<cfgVars, pc, sweepVars, timingVars, cmd_idx, outcome, dropping,
                   clockVars, memory, ghostVars>>

----------------------------------------------------------------------------
Next ==
    \/ ScenarioStart \/ SweepDone
    \/ CfgWriteSize \/ CfgReadSize \/ CfgWriteFill \/ CfgReadFill \/ SetupTime
    \/ IterBegin \/ TargetWrite \/ TargetWait \/ IterPush
    \/ TeardownWrite \/ TeardownWait \/ TotalTime
    \/ DropQuiet \/ DropStdoutLine \/ DropStdoutEof \/ DropStderrLine
    \/ DropStderrEof \/ DropReadErr
    \/ AggregatePanic \/ AggregateAdvance \/ AggregateOverflow
    \/ LoadRead \/ LoadEof \/ LoadCrash
    \/ TargetRead \/ TargetEmit \/ TargetFinish \/ TargetCrash

Spec == Init /\ [][Next]_vars

----------------------------------------------------------------------------
(* The aggregate functions on their own: main at line 282, holding the     *)
(* timing a scenario of any number of iterations has returned.             *)

\* The duration samples explored: every sequence of at most MaxSample
\* durations of at most MaxDuration ticks.
Samples == UNION {[1..n -> 0..MaxDuration] : n \in 0..MaxSample}

StatInit ==
    /\ \E times \in Samples :
          /\ cli = [minbytes |-> 1, maxbytes |-> 1, stepbytes |-> 1,
                    stepfactor |-> [num |-> 1, den |-> 1], iterations |-> Len(times),
                    verbose |-> FALSE, scanmem_commands |-> "exit"]
          /\ report = [setup_time |-> 0, benchmark_times |-> times, total_time |-> 0]
          /\ iter = Len(times)
          /\ timers_started = Len(times)
    /\ env = [clock_steps |-> {0 - 1, 0, 1}, target_out |-> 0]
    /\ pc = "aggregate"
    /\ step_size = cli.minbytes
    /\ results = <<>>
    /\ exit_code = "running"
    /\ total_start_time = 0
    /\ start = 0
    /\ cmd_idx = 1
    /\ outcome = "ok"
    /\ dropping = "load"
    /\ now = 0
    /\ clock_monotone = FALSE
    /\ chan = [load |-> NoChannel, target |-> NoChannel]
    /\ memory = <<>>
    /\ rul_eof = FALSE

StatNext == AggregatePanic \/ AggregateAdvance

StatSpec == StatInit /\ [][StatNext]_vars

----------------------------------------------------------------------------
(* synthetic_load on its own: a writer has put any lines on its standard   *)
(* input and closed it; nobody reads its output.                           *)

\* The input lines explored: every command, with arguments in and out of
\* the buffer, and two lines that do not parse.
LoadLines ==
    {SetMemorySizeCmd(n) : n \in 0..MaxMemory}
    \cup {FillCmd(0), FillCmd(255), FillCmd(256), FillRandomCmd(RandomSeed)}
    \cup {SetAddressCmd(o, 9) : o \in {0 - 1, 0, MaxMemory}}
    \cup {InfoCmd, ExitCmd, QCmd, [op |-> "bogus", arg |-> 0, value |-> 0]}

LoadInputs == UNION {[1..n -> LoadLines] : n \in 0..MaxLines}

LoadInit ==
    /\ \E input \in LoadInputs :
          chan = [load |-> [Spawned EXCEPT !.stdin = input, !.sent = input,
                                           !.in_open = FALSE],
                  target |-> NoChannel]
    /\ cli = [minbytes |-> 1, maxbytes |-> 1, stepbytes |-> 1,
              stepfactor |-> [num |-> 1, den |-> 1], iterations |-> 0,
              verbose |-> FALSE, scanmem_commands |-> "exit"]
    /\ env = [clock_steps |-> {0}, target_out |-> 0]
    /\ pc = "main_loop"
    /\ step_size = cli.minbytes
    /\ results = <<>>
    /\ exit_code = "running"
    /\ report = DefaultTiming
    /\ total_start_time = 0
    /\ start = 0
    /\ iter = 0
    /\ cmd_idx = 1
    /\ outcome = "none"
    /\ dropping = "load"
    /\ now = 0
    /\ clock_monotone = TRUE
    /\ memory = <<>>
    /\ timers_started = 0
    /\ rul_eof = FALSE

LoadNext == LoadRead \/ LoadEof

LoadSpec == LoadInit /\ [][LoadNext]_vars

----------------------------------------------------------------------------
(* Properties.                                                             *)

Last(s) == s[Len(s)]

InReadUntilLine == pc \in {"cfg_read_size", "cfg_read_fill"}

\* C1: once read_until_line has read end-of-stream without having read the
\* sentinel, it has failed: the scenario is returning an error and the
\* harness is no longer in the read loop.
C1_FailsAtEndOfStream == rul_eof => (outcome # "none" /\ ~InReadUntilLine)

\* A sweep whose step neither adds nor multiplies.
ZeroStep == cli.stepbytes = 0 /\ cli.stepfactor.num = cli.stepfactor.den

\* C2: with stepbytes = 0 and stepfactor = 1.0 no scenario is ever run: the
\* harness never leaves the sweep loop head, no child is spawned and no
\* result is appended.
C2_ZeroStepRunsNothing ==
    ZeroStep => /\ pc \in {"main_loop", "done"}
                /\ chan.load.st = "none"
                /\ results = <<>>

\* The sizes of the results pushed so far.
ResultSizes == [i \in 1..Len(results) |-> results[i].synthetic_load_size]

\* The sweep is back at the loop head after a step.
Stepped == pc = "main_loop" /\ results # <<>>

\* C3 as stated: minbytes <= maxbytes, and stepbytes > 0 or stepfactor > 1.0.
StatedProgress ==
    /\ cli.minbytes <= cli.maxbytes
    /\ cli.stepbytes > 0 \/ cli.stepfactor.num > cli.stepfactor.den

\* C3 (as stated): under StatedProgress every step of the sweep leaves the
\* size strictly larger than the size of the scenario just run.
C3_StatedProgressIncreases ==
    (Stepped /\ StatedProgress) => step_size > Last(results).synthetic_load_size

\* The amended condition: the factor does not shrink the size, the step adds
\* something or the factor adds at least one to the smallest size, and
\* maxbytes + stepbytes is an integer that f64 holds exactly (which also
\* keeps the sum inside u64).
AmendedProgress ==
    /\ cli.minbytes <= cli.maxbytes
    /\ cli.stepfactor.num >= cli.stepfactor.den
    /\ \/ cli.stepbytes > 0
       \/ cli.minbytes * (cli.stepfactor.num - cli.stepfactor.den) >= cli.stepfactor.den
    /\ cli.maxbytes + cli.stepbytes <= ExactLimit

\* C3 (amended): under AmendedProgress every step leaves the size strictly
\* larger, the sizes run so far are strictly increasing and inside the
\* range, so that at most maxbytes - minbytes + 1 scenarios run; the loop
\* never needs the cap of the model.
C3_AmendedProgressTerminates ==
    AmendedProgress =>
        /\ Stepped => step_size > Last(results).synthetic_load_size
        /\ \A i \in 1..Len(results) :
              /\ InRange(ResultSizes[i], cli.minbytes, cli.maxbytes)
              /\ i > 1 => ResultSizes[i] > ResultSizes[i - 1]
        /\ Len(results) <= cli.maxbytes - cli.minbytes + 1
        /\ Len(results) < MaxResults

\* C3 witness: a sweep under AmendedProgress that ran several sizes and left
\* the loop because the size passed maxbytes.
C3_Witness ==
    /\ AmendedProgress
    /\ pc = "done"
    /\ Len(results) >= 3
    /\ step_size > cli.maxbytes

\* The sizes the sweep is to visit, by the recurrence of the specification
\* in exact arithmetic: from s, at most k sizes.
RECURSIVE SpecVisited(_, _)
SpecVisited(s, k) ==
    IF k = 0 \/ ~InRange(s, cli.minbytes, cli.maxbytes) THEN <<>>
    ELSE <<s>> \o SpecVisited(((s + cli.stepbytes) * cli.stepfactor.num)
                                  \div cli.stepfactor.den, k - 1)

\* C4: the report holds one result per visited size, in order: the sizes of
\* the results are at every moment the first of the sizes s0 = minbytes,
\* s(k+1) = floor((s(k) + stepbytes) * stepfactor) inside the range, and they
\* are all of them once the run has ended.
C4_ReportHoldsVisitedSizes ==
    LET v == SpecVisited(cli.minbytes, MaxResults)
    IN  /\ Len(results) <= Len(v)
        /\ \A i \in 1..Len(results) : ResultSizes[i] = v[i]
        /\ exit_code # "running" => ResultSizes = v

\* C5: a failed scenario is not fatal: while a scenario's error is the last
\* outcome, the harness has not panicked.
C5_SweepSurvivesFailure == outcome = "err" => pc # "panicked"

\* C6: the aggregation is never run on an empty duration sequence: the
\* harness never is where the aggregation of lines 282-286 panicked on the
\* empty benchmark_times of a returned scenario.
C6_NoAggregateOfEmpty ==
    ~(pc = "panicked" /\ outcome \in {"ok", "err"}
        /\ KeptTiming.benchmark_times = <<>>)

\* C7: once a scenario that had started the load has returned an error, the
\* load was sent `exit` and was reaped.  (Stated for a load that did not die
\* by itself, where `exit` is what ends it.)
C7_FailedScenarioTearsDown ==
    (outcome = "err" /\ chan.load.handle = "dropped" /\ ~chan.load.crashed) =>
        /\ \E i \in 1..Len(chan.load.sent) : chan.load.sent[i] = ExitCmd
        /\ chan.load.waits >= 1

\* C8: every channel that was closed was waited on exactly once, and no read
\* or write on its streams came after the wait.
C8_WaitedOnceAfterIo ==
    \A c \in {"load", "target"} :
        chan[c].handle = "dropped" =>
            chan[c].waits = 1 /\ ~chan[c].io_after_wait

\* C9: no timer is started and no target is spawned before the harness has
\* read `Done` twice from a load that emitted it twice, after writing
\* set-memory-size and then fill-random; and fill-random is written only
\* after the first `Done` was read (each `Done` read answers a line written).
C9_MeasureAfterBothDone ==
    LET l == chan.load
    IN  /\ (timers_started > 0 \/ chan.target.st # "none") =>
              /\ l.seen >= 2
              /\ l.emitted >= 2
              /\ Len(l.sent) >= 2
        /\ Len(l.sent) >= 1 =>
              /\ l.sent[1].op = "set-memory-size"
              /\ pc \notin {"main_loop", "done"} => l.sent[1] = SetMemorySizeCmd(step_size)
        /\ Len(l.sent) >= 2 => l.sent[2] = FillRandomCmd(RandomSeed) /\ l.seen >= 1
        /\ l.seen <= l.emitted
        /\ l.emitted <= Len(l.sent)

\* C9 witness: the timer of an iteration runs, after both `Done` were read.
C9_Witness ==
    /\ timers_started > 0
    /\ chan.load.seen = 2
    /\ pc = "target_write"

\* C10: a scenario that returns Ok with iterations = N holds exactly N
\* durations, none negative, and under a clock that never went backwards
\* total_time >= setup_time + the sum of the durations; each duration is
\* appended after the earlier ones and is the time from the start of its
\* iteration to its end.
C10_TimingStates ==
    /\ outcome = "ok" =>
          /\ Len(report.benchmark_times) = cli.iterations
          /\ \A i \in 1..Len(report.benchmark_times) : report.benchmark_times[i] >= 0
          /\ report.setup_time >= 0
          /\ clock_monotone =>
                report.total_time >= report.setup_time + SeqSum(report.benchmark_times)
    /\ outcome = "none" => Len(report.benchmark_times) = iter

C10_TimingSteps ==
    (report'.benchmark_times # report.benchmark_times /\ pc = "iter_push") =>
        report'.benchmark_times = Append(report.benchmark_times, now' - start)

C10_SuccessfulTiming == [](C10_TimingStates) /\ [][C10_TimingSteps]_vars

\* C10 witness: a scenario of two iterations returned Ok under a monotone
\* clock, with a duration that is not zero.
C10_Witness ==
    /\ outcome = "ok"
    /\ clock_monotone
    /\ cli.iterations = 2
    /\ Len(report.benchmark_times) = 2
    /\ report.benchmark_times[2] > 0
    /\ report.setup_time > 0

\* The scenario returned Err out of an iteration: its timer was started and
\* its duration was not pushed.
FailedInIteration == pc = "aggregate" /\ outcome = "err" /\ timers_started = iter + 1

\* C17: when iteration k of a scenario fails, the timing main keeps for the
\* scenario holds the k durations collected before the failure and the
\* recorded setup duration.
C17_FailureKeepsDurations ==
    FailedInIteration =>
        /\ Len(report.benchmark_times) = iter
        /\ KeptTiming.benchmark_times = report.benchmark_times
        /\ KeptTiming.setup_time = report.setup_time

\* The harness is between having read the second `Done` of the configuration
\* and writing `exit`: it takes the setup time, runs the iterations or drops
\* the scanmem process of one.
BetweenConfigureAndTeardown ==
    \/ pc \in {"setup_time", "iter_begin", "target_write", "target_wait", "iter_push"}
    \/ pc \in {"drop", "drop_stderr"} /\ dropping = "target"

\* C18, in every state between configure and teardown: the load has been
\* sent set-memory-size and fill-random and nothing else, both were
\* acknowledged, and its buffer has the size of the scenario and the
\* contents of the fill.
C18_LoadConfigured ==
    BetweenConfigureAndTeardown =>
        /\ chan.load.sent = <<SetMemorySizeCmd(step_size), FillRandomCmd(RandomSeed)>>
        /\ chan.load.stdin = <<>>
        /\ chan.load.seen = 2
        /\ Len(memory) = step_size
        /\ \A i \in DOMAIN memory : memory[i] = RandomByte(RandomSeed, i)

\* C18, in every step between configure and teardown: no load process is
\* started, the buffer of the load does not change, and nothing is written
\* to the load except the `exit` of the teardown.
C18_LoadUntouchedStep ==
    BetweenConfigureAndTeardown =>
        /\ memory' = memory
        /\ chan.load.st # "running" => chan'.load.st # "running"
        /\ \/ chan'.load.sent = chan.load.sent
           \/ /\ pc = "iter_begin" /\ iter >= cli.iterations
              /\ chan'.load.sent = Append(chan.load.sent, ExitCmd)

\* C18: within one scenario every iteration runs against the one load
\* process started by the configuration, and between the second `Done` and
\* the `exit` of the teardown the harness writes nothing to it, so its buffer
\* keeps its size and contents across the iterations.
C18_LoadUnchangedAcrossIterations ==
    [](C18_LoadConfigured) /\ [][C18_LoadUntouchedStep]_vars

\* The second iteration waits for scanmem while the load still runs.
C18_Witness ==
    /\ pc = "target_wait"
    /\ iter = 1
    /\ Len(report.benchmark_times) = 1
    /\ chan.load.st = "running"
    /\ memory # <<>>

\* scanmem is blocked writing: it has output left and both pipes are full.
TargetBlockedWriting ==
    /\ chan.target.st = "running"
    /\ chan.target.emitted < env.target_out
    /\ Len(chan.target.stdout) >= PipeCap
    /\ Len(chan.target.stderr) >= PipeCap

\* C19: the harness is never blocked in wait() on a scanmem that has read
\* all its commands, `exit` included, and is blocked writing output that
\* nobody reads.
C19_NoWaitOnBlockedWriter ==
    ~(pc = "target_wait" /\ chan.target.finishing /\ chan.target.stdin = <<>>
        /\ TargetBlockedWriting)

\* The load is blocked reading: it runs, it has read all it was sent and its
\* input is still open.
LoadAwaitsInput ==
    chan.load.st = "running" /\ chan.load.stdin = <<>> /\ chan.load.in_open

\* C20: Drop never waits for the end of the output of a load that itself
\* waits for input: when the drain of the load's stdout has nothing left to
\* read, the load has exited, was told to exit, or has had its input closed.
C20_DrainReachesEndOfStream ==
    ~(pc = "drop" /\ dropping = "load" /\ cli.verbose /\ outcome = "err"
        /\ chan.load.stdout = <<>> /\ LoadAwaitsInput)

----------------------------------------------------------------------------
(* Properties of the aggregate functions, under StatSpec.                  *)

\* The sample a pushed result was computed from.
SampleOf(r) == r.timing.benchmark_times

CountBelow(values, x) == Cardinality({i \in DOMAIN values : values[i] < x})
CountAtMost(values, x) == Cardinality({i \in DOMAIN values : values[i] <= x})

\* x is the element at 0-based position p of the ascending sort of values.
IsOrderStatistic(values, x, p) ==
    /\ \E i \in DOMAIN values : values[i] = x
    /\ CountBelow(values, x) <= p
    /\ CountAtMost(values, x) >= p + 1

\* C11 as stated: the median of every result is the lower-middle element of
\* the ascending sort for an even count (position (n - 1) / 2, the exact
\* middle for an odd count), and the median of 1, 2, 3, 4 is 2.
C11_StatedMedianLowerMiddle ==
    \A i \in DOMAIN results :
        LET v == SampleOf(results[i])
        IN  /\ IsOrderStatistic(v, results[i].median, (Len(v) - 1) \div 2)
            /\ v = <<1, 2, 3, 4>> => results[i].median = 2

\* C11 amended: the median of every result is the element at 0-based
\* position n / 2 of the ascending sort, which is the upper-middle element
\* for an even count and the exact middle for an odd count; the median of
\* 1, 2, 3, 4 is 3.
C11_MedianUpperMiddle ==
    \A i \in DOMAIN results :
        LET v == SampleOf(results[i])
        IN  /\ IsOrderStatistic(v, results[i].median, Len(v) \div 2)
            /\ v = <<1, 2, 3, 4>> => results[i].median = 3

C11_Witness ==
    \E i \in DOMAIN results :
        SampleOf(results[i]) = <<4, 1, 3, 2>> /\ results[i].median = 3

\* C12: for every result of a single-element sample d, min, max, mean and
\* median are all d and the standard deviation is 0.
C12_SingleSampleAggregates ==
    \A i \in DOMAIN results :
        LET v == SampleOf(results[i])
            r == results[i]
        IN  Len(v) = 1 =>
              /\ r.min = v[1] /\ r.max = v[1] /\ r.median = v[1]
              /\ r.mean.num = v[1] * r.mean.den
              /\ r.standard_deviation.sq_num = 0

MedianInRange(r) == r.min <= r.median /\ r.median <= r.max
MeanInRange(r) == r.min * r.mean.den <= r.mean.num /\ r.mean.num <= r.max * r.mean.den
DeviationNonNegative(r) ==
    r.standard_deviation.sq_num >= 0 /\ r.standard_deviation.sq_den > 0

\* C13 as stated: every result of a non-empty sample has
\* min <= median <= max, min <= mean <= max and stddev >= 0.
C13_StatedAggregateBounds ==
    \A i \in DOMAIN results :
        MedianInRange(results[i]) /\ MeanInRange(results[i])
        /\ DeviationNonNegative(results[i])

\* C13 amended: every result of a non-empty sample has min <= median <= max
\* and stddev >= 0, and it has min <= mean <= max whenever the floating
\* point sum of the sample is the exact sum.
C13_AggregateBounds ==
    \A i \in DOMAIN results :
        /\ MedianInRange(results[i])
        /\ DeviationNonNegative(results[i])
        /\ FloatSum(SampleOf(results[i])) = SeqSum(SampleOf(results[i]))
              => MeanInRange(results[i])

C13_Witness ==
    \E i \in DOMAIN results :
        LET r == results[i]
        IN  /\ Len(SampleOf(r)) >= 3
            /\ FloatSum(SampleOf(r)) = SeqSum(SampleOf(r))
            /\ r.min < r.median /\ r.median < r.max
            /\ r.min * r.mean.den < r.mean.num /\ r.mean.num < r.max * r.mean.den
            /\ r.standard_deviation.sq_num > 0

----------------------------------------------------------------------------
(* Properties of synthetic_load, under LoadSpec.                           *)

\* The lines the load has read so far, in order.
Processed ==
    SubSeq(chan.load.sent, 1, Len(chan.load.sent) - Len(chan.load.stdin))

\* Number of `Done` lines the load has written.
DoneLines ==
    Cardinality({i \in DOMAIN chan.load.stdout : chan.load.stdout[i] = DoneLine})

IsSizeOrFill(cmd) ==
    ValidCommand(cmd) /\ cmd.op \in {"set-memory-size", "fill", "fill-random"}

IsPerformed(cmd) == ValidCommand(cmd) /\ cmd.op \notin {"exit", "q"}

\* Numbers of such lines among the lines read so far.
SizeOrFillCount == Cardinality({i \in DOMAIN Processed : IsSizeOrFill(Processed[i])})
PerformedCount == Cardinality({i \in DOMAIN Processed : IsPerformed(Processed[i])})

\* The load reads the line at the head of its input in this step.
LoadReadsLine ==
    /\ chan.load.st = "running"
    /\ chan.load.stdin # <<>>
    /\ chan'.load.stdin = Tail(chan.load.stdin)

\* The lines this step appends to the output of the load.
Appended ==
    SubSeq(chan'.load.stdout, Len(chan.load.stdout) + 1, Len(chan'.load.stdout))

\* C14 as stated: the number of `Done` lines written equals the number of
\* set-memory-size, fill and fill-random commands processed (no `Done`
\* after set-address, info, exit, q or an invalid line).
C14_StatedDoneCount == DoneLines = SizeOrFillCount

\* C14 amended, in every state: the number of `Done` lines written equals
\* the number of valid commands other than exit/q processed.
C14_DoneCount == DoneLines = PerformedCount

\* C14 amended, in every step that reads a line: the output grows by lines
\* of which the last and only the last is `Done` when the line is a valid
\* command other than exit/q, and by no `Done` otherwise.
C14_DoneStep ==
    LoadReadsLine =>
        LET cmd == Head(chan.load.stdin)
            new == Appended
        IN  IF IsPerformed(cmd)
            THEN /\ new # <<>> /\ new[Len(new)] = DoneLine
                 /\ \A i \in 1..(Len(new) - 1) : new[i] # DoneLine
            ELSE \A i \in DOMAIN new : new[i] # DoneLine

\* C14 amended: `Done` is written exactly once after every valid command
\* other than exit/q (set-memory-size, fill, fill-random, set-address and
\* info) and not after exit, q or an invalid line, so the number of `Done`
\* lines equals the number of such commands processed.
C14_DoneAfterEveryCommand == [](C14_DoneCount) /\ [][C14_DoneStep]_vars

C14_Witness ==
    /\ Len(Processed) = 3
    /\ SizeOrFillCount = 1
    /\ \E i \in DOMAIN Processed : Processed[i].op = "set-address"
    /\ \E i \in DOMAIN Processed : ~ValidCommand(Processed[i])
    /\ DoneLines = 2

\* C15, in every step: reading a line that is not a valid command writes
\* one diagnostic line, leaves the buffer as it is and leaves the load
\* running with the rest of its input; the load stops running only by
\* reading exit or q, or at the end of its input.
C15_InvalidLineStep ==
    /\ LoadReadsLine /\ ~ValidCommand(Head(chan.load.stdin)) =>
          /\ memory' = memory
          /\ chan'.load.st = "running"
          /\ Len(Appended) = 1 /\ Appended[1] # DoneLine
    /\ chan.load.st = "running" /\ chan'.load.st # "running" =>
          \/ chan.load.stdin # <<>> /\ Head(chan.load.stdin) \in {ExitCmd, QCmd}
          \/ chan.load.stdin = <<>> /\ ~chan.load.in_open

ResizedLast ==
    /\ Processed # <<>>
    /\ Last(Processed).op = "set-memory-size"
    /\ ValidCommand(Last(Processed))

\* C16 as stated: after set-memory-size n, whatever the buffer was, the
\* buffer has exactly n bytes and every byte is zero.
C16_StatedResizeZeroes ==
    ResizedLast =>
        /\ Len(memory) = Last(Processed).arg
        /\ \A i \in DOMAIN memory : memory[i] = 0

\* C16 amended, in every step: set-memory-size n leaves exactly n bytes; the
\* bytes the buffer already had keep their values and the bytes beyond its
\* previous length are zero.
C16_ResizeStep ==
    LoadReadsLine /\ Head(chan.load.stdin).op = "set-memory-size"
                  /\ ValidCommand(Head(chan.load.stdin)) =>
        /\ Len(memory') = Head(chan.load.stdin).arg
        /\ \A i \in DOMAIN memory' :
              memory'[i] = IF i <= Len(memory) THEN memory[i] ELSE 0

\* C16 amended: after set-memory-size n the buffer has exactly n bytes, of
\* which the first min(old size, n) are the previous bytes and the rest are
\* zero.
C16_ResizeKeepsOldBytes == [][C16_ResizeStep]_vars

\* The buffer was filled with a non-zero byte and then grown: the old byte
\* is kept, the new one is zero.
C16_Witness ==
    /\ Processed = <<SetMemorySizeCmd(1), FillCmd(255), SetMemorySizeCmd(2)>>
    /\ memory = <<255, 0>>

====
